---- MODULE Spec2Model ----
(***************************************************************************)
(* A model of pip's resolvelib provider module                             *)
(* (src/pip/_internal/resolution/resolvelib/provider.py):                  *)
(*   - _OrderedStructure, the strict-ordering graph, and                   *)
(*   - PipProvider, the preference / matching policy of the resolver.      *)
(*                                                                         *)
(* Python sets have no specified iteration order.  A set is modelled as a  *)
(* duplicate-free sequence, its iteration order; inserting a new element   *)
(* may put it at any place of that order.                                  *)
(***************************************************************************)
EXTENDS Integers, Sequences, FiniteSets, TLC

\* ------------------------------------------------------------------ values
\* Python's None
None == [tag |-> "None"]

\* The hashable elements handed to the ordering structure.
Node == {"a", "b", "c"}

Range(s) == {s[i] : i \in 1..Len(s)}

\* The orders a set may iterate in after `x` is added to it.
SetAdd(s, x) ==
  IF x \in Range(s) THEN {s}
  ELSE {SubSeq(s, 1, i) \o <<x>> \o SubSeq(s, i + 1, Len(s)) : i \in 0..Len(s)}

VARIABLES
  graph,      \* _OrderedStructure._graph: node -> successors (iteration order)
  nodes,      \* _OrderedStructure._nodes (iteration order)
  result,     \* the last _OrderedStructure call: operation, arguments, outcome
  succeeded,  \* history: the pairs <<a, b>> whose add_relation(a, b) returned
  known_depths,    \* PipProvider._known_depths (the keys present, and their values)
  user_requested,  \* PipProvider._user_requested
  constraints,     \* PipProvider._constraints
  upgrade_strategy,  \* PipProvider._upgrade_strategy
  ignore_dependencies,  \* PipProvider._ignore_dependencies
  solver,     \* one resolution: options, Resolver, the solver's round loop
  cache,      \* the lru_cache tables of the memoized packaging functions
  call        \* the last PipProvider call: arguments, the table before it, return value

ordVars == <<graph, nodes, result, succeeded>>
provVars ==
  <<known_depths, user_requested, constraints, upgrade_strategy, ignore_dependencies, call>>
extVars == <<solver, cache>>
vars == <<graph, nodes, result, succeeded, known_depths, user_requested, constraints,
          upgrade_strategy, ignore_dependencies, solver, cache, call>>

\* dict.get(key, []) on _graph
GraphGet(g, n) == IF n \in DOMAIN g THEN g[n] ELSE <<>>

\* (variant: a missing key is not added)
SetDefaultSkipped(g, n) == g

\* dict.setdefault(key, set()) on _graph
SetDefault(g, n) ==
  IF n \in DOMAIN g THEN g ELSE [k \in DOMAIN g \cup {n} |-> IF k = n THEN <<>> ELSE g[k]]

Edges(g) == {e \in (DOMAIN g) \X Node : e[2] \in Range(g[e[1]])}

\* ------------------------------------------------------- _OrderedStructure
\* _has_path(src, dest, visited): depth-first search; `visited` is one set
\* shared by the whole recursion.  The value is <<found, visited>>.
\* (variant: only the direct successors are looked at, no recursion)
RECURSIVE has_path_loop_direct_only(_, _, _, _, _)
has_path_loop_direct_only(g, nbs, i, dest, visited) ==
  IF i > Len(nbs) THEN <<FALSE, visited>>
  ELSE IF nbs[i] = dest THEN <<TRUE, visited>>
  ELSE has_path_loop_direct_only(g, nbs, i + 1, dest, visited)

RECURSIVE has_path(_, _, _, _), has_path_loop(_, _, _, _, _)
has_path(g, src, dest, visited) ==
  has_path_loop(g, GraphGet(g, src), 1, dest, visited \cup {src})

has_path_loop(g, nbs, i, dest, visited) ==
  IF i > Len(nbs) THEN <<FALSE, visited>>
  ELSE IF nbs[i] = dest THEN <<TRUE, visited>>
  ELSE IF nbs[i] \notin visited
       THEN LET r == has_path(g, nbs[i], dest, visited)
            IN  IF r[1] THEN r ELSE has_path_loop(g, nbs, i + 1, dest, r[2])
       ELSE has_path_loop(g, nbs, i + 1, dest, visited)

\* (variant: the reachability search run from a toward b)
add_relation_raises_swapped(g, a, b) == a \in DOMAIN g /\ has_path(g, a, b, {})[1]

\* the condition under which add_relation raises ValueError
add_relation_raises(g, a, b) == a \in DOMAIN g /\ has_path(g, b, a, {})[1]

add_relation(a, b) ==
  IF add_relation_raises(graph, a, b)
  THEN /\ UNCHANGED <<graph, nodes, succeeded, provVars, extVars>>
       /\ result' = [op |-> "add_relation", args |-> <<a, b>>, raised |-> TRUE,
                     value |-> None]
  ELSE /\ UNCHANGED <<provVars, extVars>>
       /\ succeeded' = succeeded \cup {<<a, b>>}
       /\ \E succ \in SetAdd(GraphGet(graph, a), b) :
            LET g1 == [k \in DOMAIN graph \cup {a} |-> IF k = a THEN succ ELSE graph[k]]
            IN  graph' = SetDefault(g1, b)
       /\ \E n1 \in SetAdd(nodes, a) : nodes' \in SetAdd(n1, b)
       /\ result' = [op |-> "add_relation", args |-> <<a, b>>, raised |-> FALSE,
                     value |-> None]

\* _topological_sort_util(node, visited, stack); the value is <<visited, stack>>.
RECURSIVE topological_sort_util(_, _, _, _), topological_sort_util_loop(_, _, _, _, _)
topological_sort_util(g, node, visited, stack) ==
  LET r == topological_sort_util_loop(g, GraphGet(g, node), 1, visited \cup {node}, stack)
  IN  <<r[1], Append(r[2], node)>>

topological_sort_util_loop(g, nbs, i, visited, stack) ==
  IF i > Len(nbs) THEN <<visited, stack>>
  ELSE IF nbs[i] \notin visited
       THEN LET r == topological_sort_util(g, nbs[i], visited, stack)
            IN  topological_sort_util_loop(g, nbs, i + 1, r[1], r[2])
       ELSE topological_sort_util_loop(g, nbs, i + 1, visited, stack)

\* (variant: every node starts a visit, visited or not)
RECURSIVE topological_sort_loop_unchecked(_, _, _, _, _)
topological_sort_loop_unchecked(g, ns, i, visited, stack) ==
  IF i > Len(ns) THEN stack
  ELSE LET r == topological_sort_util(g, ns[i], visited, stack)
       IN  topological_sort_loop_unchecked(g, ns, i + 1, r[1], r[2])

RECURSIVE topological_sort_loop(_, _, _, _, _)
topological_sort_loop(g, ns, i, visited, stack) ==
  IF i > Len(ns) THEN stack
  ELSE IF ns[i] \notin visited
       THEN LET r == topological_sort_util(g, ns[i], visited, stack)
            IN  topological_sort_loop(g, ns, i + 1, r[1], r[2])
       ELSE topological_sort_loop(g, ns, i + 1, visited, stack)

\* stack[::-1]
Reverse(s) == [i \in 1..Len(s) |-> s[Len(s) + 1 - i]]

topological_sort(g, ns) == Reverse(topological_sort_loop(g, ns, 1, {}, <<>>))

\* (variant: the rank counted from 1)
ListIndexFromOne(s, element) ==
  CHOOSE i \in 1..Len(s) : s[i] = element /\ \A j \in 1..(i - 1) : s[j] # element

\* list.index(element): the 0-based index of the first occurrence
ListIndex(s, element) ==
  (CHOOSE i \in 1..Len(s) : s[i] = element /\ \A j \in 1..(i - 1) : s[j] # element) - 1

find_position(g, ns, element) ==
  LET sorted_elements == topological_sort(g, ns)
  IN  IF element \in Range(sorted_elements)
      THEN ListIndex(sorted_elements, element)
      ELSE -1

element_exists(ns, element) == element \in Range(ns)

TopologicalSort ==
  /\ UNCHANGED <<graph, nodes, succeeded, provVars, extVars>>
  /\ result' = [op |-> "topological_sort", args |-> <<>>, raised |-> FALSE,
                value |-> topological_sort(graph, nodes)]

FindPosition(element) ==
  /\ UNCHANGED <<graph, nodes, succeeded, provVars, extVars>>
  /\ result' = [op |-> "find_position", args |-> <<element>>, raised |-> FALSE,
                value |-> find_position(graph, nodes, element)]

ElementExists(element) ==
  /\ UNCHANGED <<graph, nodes, succeeded, provVars, extVars>>
  /\ result' = [op |-> "element_exists", args |-> <<element>>, raised |-> FALSE,
                value |-> element_exists(nodes, element)]

AddRelation == \E a \in Node, b \in Node : add_relation(a, b)
FindPositionAny == \E element \in Node : FindPosition(element)
ElementExistsAny == \E element \in Node : ElementExists(element)

\* _OrderedStructure.__init__
OrderedStructureInit ==
  /\ graph = <<>>
  /\ nodes = <<>>
  /\ succeeded = {}
  /\ result = [op |-> "init", args |-> <<>>, raised |-> FALSE, value |-> None]

\* no resolution started, nothing memoized
NoResolution == [phase |-> "none"]
CachedFunctions ==
  {"specifier_contains", "parse_version", "parse_new_version", "canonicalize_name",
   "canonicalize_version"}
NoCache == [f \in CachedFunctions |-> <<>>]

\* no provider call made
NoCall == [op |-> "none"]

Init ==
  /\ OrderedStructureInit
  /\ known_depths = <<>>
  /\ user_requested = <<>>
  /\ constraints = <<>>
  /\ upgrade_strategy = "to-satisfy-only"
  /\ ignore_dependencies = FALSE
  /\ solver = NoResolution
  /\ cache = NoCache
  /\ call = NoCall

Next ==
  \/ AddRelation
  \/ TopologicalSort
  \/ FindPositionAny
  \/ ElementExistsAny

Spec == Init /\ [][Next]_vars

\* ------------------------------------------------------------ PipProvider
\* bounds
MaxInfo == 2      \* longest information[identifier] list drawn
MaxCauses == 1    \* longest backtrack_causes list drawn
MaxDepth == 3     \* largest finite depth a call may store

\* Strings are sequences of characters.
IdPinned == <<"p", "i", "n", "n", "e", "d", "-", "p", "a", "c", "k", "a", "g", "e">>
IdDep == <<"d", "e", "p">>
REQUIRES_PYTHON_IDENTIFIER ==
  <<"<", "P", "y", "t", "h", "o", "n", " ", "f", "r", "o", "m", " ",
    "R", "e", "q", "u", "i", "r", "e", "s", "-", "P", "y", "t", "h", "o", "n", ">">>

\* floats: a finite number, or math.inf
Fin(n) == [inf |-> FALSE, val |-> n]
Inf == [inf |-> TRUE, val |-> 0]
FloatLess(x, y) == ~x.inf /\ (y.inf \/ x.val < y.val)

\* (variant: nothing is added)
FloatAddNothing(x) == x

\* + 1.0
FloatAddOne(x) == IF x.inf THEN x ELSE Fin(x.val + 1)

\* (variant: keeps the largest item)
RECURSIVE max_loop(_, _, _)
max_loop(s, i, best) ==
  IF i > Len(s) THEN best
  ELSE max_loop(s, i + 1, IF FloatLess(best, s[i]) THEN s[i] ELSE best)

\* min(iterable) over a non-empty sequence: the first smallest item
RECURSIVE min_loop(_, _, _)
min_loop(s, i, best) ==
  IF i > Len(s) THEN best
  ELSE min_loop(s, i + 1, IF FloatLess(s[i], best) THEN s[i] ELSE best)

min(s) == min_loop(s, 2, s[1])

\* version specifier operators and versions
OpCompatible == <<"~", "=">>
OpEqual == <<"=", "=">>
OpNotEqual == <<"!", "=">>
OpLessEqual == <<"<", "=">>
OpGreaterEqual == <<">", "=">>
OpLess == <<"<">>
OpGreater == <<">">>
OpArbitrary == <<"=", "=", "=">>
Operators ==
  {OpCompatible, OpEqual, OpNotEqual, OpLessEqual, OpGreaterEqual, OpLess, OpGreater,
   OpArbitrary}

Version10 == <<"1", ".", "0">>
Version1Star == <<"1", ".", "*">>

Specifier(op, version) == [operator |-> op, version |-> version]

Specifiers ==
  {Specifier(op, Version10) : op \in Operators} \cup {Specifier(OpEqual, Version1Star)}

\* a SpecifierSet, in its iteration order
SpecifierSets ==
  {<<>>} \cup {<<sp>> : sp \in Specifiers}
         \cup {<<Specifier(OpGreaterEqual, Version10), Specifier(OpLess, Version10)>>}

\* requirement and candidate objects
Candidate(name) == [name |-> name]
InstallRequirement(specifier) == [specifier |-> specifier]
ExplicitRequirement(name) ==
  [kind |-> "ExplicitRequirement", name |-> name, candidate |-> Candidate(name),
   ireq |-> None]
SpecifierRequirement(name, specifier) ==
  [kind |-> "SpecifierRequirement", name |-> name, candidate |-> None,
   ireq |-> InstallRequirement(specifier)]

Requirements(name) ==
  {ExplicitRequirement(name)}
    \cup {SpecifierRequirement(name, ss) : ss \in SpecifierSets}

\* RequirementInformation(requirement, parent)
RequirementInformation(requirement, parent) ==
  [requirement |-> requirement, parent |-> parent]

\* Requirement.get_candidate_lookup(): <<candidate, ireq>>
get_candidate_lookup(r) ==
  IF r.kind = "ExplicitRequirement" THEN <<r.candidate, None>> ELSE <<None, r.ireq>>

\* sequences over S of length at most n
SeqUpTo(S, n) == UNION {[1..k -> S] : k \in 0..n}

\* --- _known_depths: collections.defaultdict(lambda: math.inf)
\* (variant: a missing key reads, and is stored, as 0.0)
DepthsReadZero(kd, name) ==
  IF name \in DOMAIN kd THEN <<kd[name], kd>>
  ELSE <<Fin(0), [k \in DOMAIN kd \cup {name} |-> IF k = name THEN Fin(0) ELSE kd[k]]>>

\* self._known_depths[name], read: a missing key is inserted with math.inf
DepthsRead(kd, name) ==
  IF name \in DOMAIN kd THEN <<kd[name], kd>>
  ELSE <<Inf, [k \in DOMAIN kd \cup {name} |-> IF k = name THEN Inf ELSE kd[k]]>>

\* (variant: an entry already present is kept)
DepthsWriteOnce(kd, name, value) ==
  IF name \in DOMAIN kd THEN kd
  ELSE [k \in DOMAIN kd \cup {name} |-> IF k = name THEN value ELSE kd[k]]

\* self._known_depths[name] = value
DepthsWrite(kd, name, value) ==
  [k \in DOMAIN kd \cup {name} |-> IF k = name THEN value ELSE kd[k]]

\* the generator parent_depths, consumed in order: <<the depths, the table>>
RECURSIVE parent_depths(_, _, _, _)
parent_depths(kd, infos, i, acc) ==
  IF i > Len(infos) THEN <<acc, kd>>
  ELSE IF infos[i].parent # None
       THEN LET r == DepthsRead(kd, infos[i].parent.name)
            IN  parent_depths(r[2], infos, i + 1, Append(acc, r[1]))
       ELSE parent_depths(kd, infos, i + 1, Append(acc, Fin(0)))

\* the operators of every specifier of every specifier set, in order
RECURSIVE operators_of(_, _)
operators_of(ireqs, i) ==
  IF i > Len(ireqs) THEN <<>>
  ELSE IF ireqs[i] # None
       THEN [j \in 1..Len(ireqs[i].specifier) |-> ireqs[i].specifier[j].operator]
              \o operators_of(ireqs, i + 1)
       ELSE operators_of(ireqs, i + 1)

\* op[:2]
FirstTwo(op) == SubSeq(op, 1, IF Len(op) < 2 THEN Len(op) ELSE 2)

\* (variant: op == "==")
is_exactly_equal_operator(op) == op = <<"=", "=">>

\* op[:2] == "=="
is_pin_operator(op) == FirstTwo(op) = <<"=", "=">>

\* (variant: the parent of a cause is not looked at)
RECURSIVE is_backtrack_cause_loop_no_parent(_, _, _)
is_backtrack_cause_loop_no_parent(identifier, backtrack_causes, i) ==
  IF i > Len(backtrack_causes) THEN FALSE
  ELSE IF identifier = backtrack_causes[i].requirement.name THEN TRUE
  ELSE is_backtrack_cause_loop_no_parent(identifier, backtrack_causes, i + 1)

\* is_backtrack_cause(identifier, backtrack_causes)
RECURSIVE is_backtrack_cause_loop(_, _, _)
is_backtrack_cause_loop(identifier, backtrack_causes, i) ==
  IF i > Len(backtrack_causes) THEN FALSE
  ELSE IF identifier = backtrack_causes[i].requirement.name THEN TRUE
  ELSE IF backtrack_causes[i].parent # None
          /\ identifier = backtrack_causes[i].parent.name THEN TRUE
  ELSE is_backtrack_cause_loop(identifier, backtrack_causes, i + 1)

is_backtrack_cause(identifier, backtrack_causes) ==
  is_backtrack_cause_loop(identifier, backtrack_causes, 1)

\* (variant: .get(identifier, 0))
requested_order_default_zero(ur, identifier) ==
  IF identifier \in DOMAIN ur THEN Fin(ur[identifier]) ELSE Fin(0)

\* self._user_requested.get(identifier, math.inf)
requested_order_of(ur, identifier) ==
  IF identifier \in DOMAIN ur THEN Fin(ur[identifier]) ELSE Inf

\* (variant: compares with the wrong identifier)
is_requires_python_never(identifier) == identifier = Tail(REQUIRES_PYTHON_IDENTIFIER)

\* requires_python = identifier == REQUIRES_PYTHON_IDENTIFIER
is_requires_python(identifier) == identifier = REQUIRES_PYTHON_IDENTIFIER

\* <<inferred_depth, the table after the reads>>
inferred_depth_of(kd, ur, identifier, infos) ==
  IF identifier \in DOMAIN ur THEN <<Fin(1), kd>>
  ELSE IF Len(infos) > 0
       THEN LET r == parent_depths(kd, infos, 1, <<>>)
            IN  <<FloatAddOne(min(r[1])), r[2]>>
       ELSE <<Inf, kd>>

\* get_preference: [key |-> the tuple returned, known_depths |-> the table left]
get_preference(kd, ur, identifier, information, backtrack_causes) ==
  LET infos == information[identifier]
      has_information == Len(infos) > 0
      lookups == [i \in 1..Len(infos) |-> get_candidate_lookup(infos[i].requirement)]
      \* candidate, ireqs = zip(*lookups): two tuples
      candidate == IF has_information
                   THEN [tag |-> "tuple", items |-> [i \in 1..Len(infos) |-> lookups[i][1]]]
                   ELSE None
      ireqs == IF has_information THEN [i \in 1..Len(infos) |-> lookups[i][2]] ELSE <<>>
      operators == operators_of(ireqs, 1)
      direct == candidate # None
      pinned == \E i \in 1..Len(operators) : is_pin_operator(operators[i])
      unfree == Len(operators) > 0
      depth == inferred_depth_of(kd, ur, identifier, infos)
      inferred_depth == depth[1]
      requested_order == requested_order_of(ur, identifier)
      requires_python == is_requires_python(identifier)
      backtrack_cause == is_backtrack_cause(identifier, backtrack_causes)
  IN  [key |-> <<~requires_python, ~direct, ~pinned, ~backtrack_cause,
                 inferred_depth, requested_order, ~unfree, identifier>>,
       known_depths |-> DepthsWrite(depth[2], identifier, inferred_depth)]

\* one get_preference call on the provider
GetPreference(identifier, information, backtrack_causes) ==
  LET r == get_preference(known_depths, user_requested, identifier, information,
                          backtrack_causes)
  IN  /\ r.key[5].inf \/ r.key[5].val <= MaxDepth
      /\ known_depths' = r.known_depths
      /\ call' = [op |-> "get_preference", identifier |-> identifier,
                  information |-> information, backtrack_causes |-> backtrack_causes,
                  known_depths_before |-> known_depths, ret |-> r.key]
      /\ UNCHANGED <<user_requested, constraints, upgrade_strategy, ignore_dependencies,
                     ordVars, extVars>>

\* the user_requested mappings a provider is constructed with
UserRequestedChoices ==
  {<<>>,
   [k \in {IdPinned} |-> 1],
   [k \in {IdPinned, REQUIRES_PYTHON_IDENTIFIER} |->
      IF k = IdPinned THEN 2 ELSE 1]}

\* --- the preference key of one call, over every shape of requirement
KeyIdentifiers == {IdPinned, REQUIRES_PYTHON_IDENTIFIER}

KeyInformation(identifier) ==
  [{identifier} ->
     SeqUpTo({RequirementInformation(r, None) : r \in Requirements(identifier)}, MaxInfo)]

KeyCauses ==
  SeqUpTo({RequirementInformation(SpecifierRequirement(IdPinned, <<>>), None),
           RequirementInformation(SpecifierRequirement(IdDep, <<>>), None),
           RequirementInformation(SpecifierRequirement(IdDep, <<>>), Candidate(IdPinned)),
           RequirementInformation(SpecifierRequirement(IdDep, <<>>), Candidate(IdDep))},
          MaxCauses)

\* PipProvider.__init__, and the arguments the solver is about to pass
KeyInit ==
  /\ OrderedStructureInit
  /\ known_depths = <<>>
  /\ user_requested \in UserRequestedChoices
  /\ constraints = <<>>
  /\ upgrade_strategy = "to-satisfy-only"
  /\ ignore_dependencies = FALSE
  /\ solver = NoResolution
  /\ cache = NoCache
  /\ \E identifier \in KeyIdentifiers :
       \E information \in KeyInformation(identifier), backtrack_causes \in KeyCauses :
         call = [op |-> "arguments", identifier |-> identifier,
                 information |-> information, backtrack_causes |-> backtrack_causes,
                 known_depths_before |-> <<>>, ret |-> None]

KeyNext == GetPreference(call.identifier, call.information, call.backtrack_causes)

KeySpec == KeyInit /\ [][KeyNext]_vars

\* --- the known-depth table over a run of calls
DepthIdentifiers == {IdPinned, IdDep}
DepthParents == {None, Candidate(IdPinned), Candidate(IdDep)}

DepthInformation(identifier) ==
  [{identifier} ->
     SeqUpTo({RequirementInformation(SpecifierRequirement(identifier, <<>>), parent) :
                parent \in DepthParents}, MaxInfo)]

DepthInit ==
  /\ OrderedStructureInit
  /\ known_depths = <<>>
  /\ user_requested \in UserRequestedChoices
  /\ constraints = <<>>
  /\ upgrade_strategy = "to-satisfy-only"
  /\ ignore_dependencies = FALSE
  /\ solver = NoResolution
  /\ cache = NoCache
  /\ call = NoCall

DepthNext ==
  \E identifier \in DepthIdentifiers :
    \E information \in DepthInformation(identifier) :
      GetPreference(identifier, information, <<>>)

DepthSpec == DepthInit /\ [][DepthNext]_vars

\* --- get_preference called again and again under one information mapping
\* the solver's information: every identifier with its entries
\* (an identifier's entries: its parents, each once, in any order)
ParentLists ==
  {parents \in SeqUpTo(DepthParents, Cardinality(DepthParents)) :
     \A i, j \in 1..Len(parents) : parents[i] = parents[j] => i = j}

FixedInformation ==
  {[identifier \in DepthIdentifiers |->
      [i \in 1..Len(parents[identifier]) |->
         RequirementInformation(SpecifierRequirement(identifier, <<>>),
                                parents[identifier][i])]] :
     parents \in [DepthIdentifiers -> ParentLists]}

RepeatInit ==
  /\ OrderedStructureInit
  /\ known_depths = <<>>
  /\ user_requested \in UserRequestedChoices
  /\ constraints = <<>>
  /\ upgrade_strategy = "to-satisfy-only"
  /\ ignore_dependencies = FALSE
  /\ cache = NoCache
  /\ call = NoCall
  /\ \E information \in FixedInformation :
       solver = [phase |-> "preferring", information |-> information]

RepeatNext ==
  \E identifier \in DepthIdentifiers : GetPreference(identifier, solver.information, <<>>)

RepeatSpec == RepeatInit /\ [][RepeatNext]_vars

\* every identifier keeps being asked about
RepeatFairSpec ==
  RepeatSpec
    /\ \A identifier \in DepthIdentifiers :
         WF_vars(GetPreference(identifier, solver.information, <<>>))

\* --- find_matches
IdDepExtra == <<"d", "e", "p", "[", "x", "]">>
IdDepTwoExtras == <<"d", "e", "p", "[", "x", "]", "[", "y", "]">>
IdExtraOnly == <<"[", "x", "]">>
EmptyString == <<>>

\* str.find(sep) for a one-character sep, from position i: 0 when absent
RECURSIVE str_find(_, _, _)
str_find(s, sep, i) ==
  IF i > Len(s) THEN 0
  ELSE IF s[i] = sep THEN i
  ELSE str_find(s, sep, i + 1)

\* str.partition(sep): <<head, sep, tail>>, or <<s, "", "">> when sep is absent
partition(s, sep) ==
  LET i == str_find(s, sep, 1)
  IN  IF i = 0 THEN <<s, EmptyString, EmptyString>>
      ELSE <<SubSeq(s, 1, i - 1), <<sep>>, SubSeq(s, i + 1, Len(s))>>

\* (variant: the base name is looked up before the identifier itself)
get_with_identifier_base_first(mapping, identifier, default) ==
  LET parts == partition(identifier, "[")
      name == parts[1]
      open_bracket == parts[2]
  IN  IF open_bracket # EmptyString /\ name \in DOMAIN mapping THEN mapping[name]
      ELSE IF identifier \in DOMAIN mapping THEN mapping[identifier]
      ELSE default

\* _get_with_identifier(mapping, identifier, default)
get_with_identifier(mapping, identifier, default) ==
  IF identifier \in DOMAIN mapping THEN mapping[identifier]
  ELSE LET parts == partition(identifier, "[")
           name == parts[1]
           open_bracket == parts[2]
       IN  IF open_bracket # EmptyString /\ name \in DOMAIN mapping THEN mapping[name]
           ELSE default

\* Constraint(specifier, ...); Constraint.empty() has the empty specifier set
Constraint(specifier) == [tag |-> "Constraint", specifier |-> specifier]
ConstraintEmpty == Constraint(<<>>)

\* (variant: only the identifier itself is looked up in user_requested)
eligible_for_upgrade_exact_only(strategy, ur, identifier) ==
  IF strategy = "eager" THEN TRUE
  ELSE IF strategy = "only-if-needed" THEN identifier \in DOMAIN ur
  ELSE FALSE

\* _eligible_for_upgrade(identifier); the orders of user_requested are ints,
\* boxed here so that they compare with None
eligible_for_upgrade(strategy, ur, identifier) ==
  IF strategy = "eager" THEN TRUE
  ELSE IF strategy = "only-if-needed"
       THEN LET user_order == get_with_identifier([k \in DOMAIN ur |-> Fin(ur[k])],
                                                  identifier, None)
            IN  user_order # None
  ELSE FALSE

\* the keyword arguments find_matches hands to Factory.find_candidates
find_matches(strategy, ur, cs, identifier, requirements, incompatibilities) ==
  LET constraint == get_with_identifier(cs, identifier, ConstraintEmpty)
  IN  [identifier |-> identifier,
       requirements |-> requirements,
       constraint |-> constraint,
       prefers_installed |-> ~eligible_for_upgrade(strategy, ur, identifier),
       incompatibilities |-> incompatibilities]

\* one find_matches call on the provider
FindMatches(identifier, requirements, incompatibilities) ==
  /\ call' = [op |-> "find_matches", identifier |-> identifier,
              ret |-> find_matches(upgrade_strategy, user_requested, constraints,
                                   identifier, requirements, incompatibilities)]
  /\ UNCHANGED <<known_depths, user_requested, constraints, upgrade_strategy,
                 ignore_dependencies, ordVars, extVars>>

UpgradeStrategies == {"eager", "only-if-needed", "to-satisfy-only"}
MatchKeys == {IdDep, IdDepExtra, EmptyString}
MatchIdentifiers ==
  {IdDep, IdDepExtra, IdDepTwoExtras, IdExtraOnly, IdPinned, REQUIRES_PYTHON_IDENTIFIER}

\* user_requested: each key with an order of its own
MatchUserRequested ==
  {[k \in S |-> IF k = IdDep THEN 1 ELSE IF k = IdDepExtra THEN 2 ELSE 3] :
     S \in SUBSET MatchKeys}

\* constraints: each key with a constraint of its own
MatchConstraints ==
  {[k \in S |-> IF k = IdDep THEN Constraint(<<Specifier(OpLess, Version10)>>)
                ELSE IF k = IdDepExtra THEN Constraint(<<Specifier(OpEqual, Version10)>>)
                ELSE Constraint(<<Specifier(OpGreater, Version10)>>)] :
     S \in SUBSET MatchKeys}

\* the requirements / incompatibilities mappings of a call
MatchRequirements(identifier) ==
  {[k \in {identifier} |-> <<>>],
   [k \in {identifier} |-> <<SpecifierRequirement(identifier, <<>>)>>]}
MatchIncompatibilities(identifier) ==
  {[k \in {identifier} |-> <<>>], [k \in {identifier} |-> <<Candidate(identifier)>>]}

MatchInit ==
  /\ OrderedStructureInit
  /\ known_depths = <<>>
  /\ user_requested \in MatchUserRequested
  /\ constraints \in MatchConstraints
  /\ upgrade_strategy \in UpgradeStrategies
  /\ ignore_dependencies = FALSE
  /\ solver = NoResolution
  /\ cache = NoCache
  /\ call = NoCall

MatchNext ==
  \E identifier \in MatchIdentifiers :
    \E requirements \in MatchRequirements(identifier),
       incompatibilities \in MatchIncompatibilities(identifier) :
      FindMatches(identifier, requirements, incompatibilities)

MatchSpec == MatchInit /\ [][MatchNext]_vars

\* --- unpin_requirement
IdDepRaw == <<"D", "e", "p">>

\* a SpecifierRequirement with its project_name accessor
NamedSpecifierRequirement(name, project_name, specifier) ==
  [kind |-> "SpecifierRequirement", name |-> name, project_name |-> project_name,
   candidate |-> None, ireq |-> InstallRequirement(specifier)]

\* (variant: only "<" counts as an upper bound)
is_strictly_less_operator(op) == op = OpLess

\* specifier.operator in ("<", "<=")
is_upper_bound_operator(op) == op \in {OpLess, OpLessEqual}

\* the inner for loop: does it reach its `break`?
RECURSIVE has_upper_bound_loop(_, _)
has_upper_bound_loop(specifier, i) ==
  IF i > Len(specifier) THEN FALSE
  ELSE IF is_upper_bound_operator(specifier[i].operator) THEN TRUE
  ELSE has_upper_bound_loop(specifier, i + 1)

\* the for loop over backtrack_causes, building upper_bounded
RECURSIVE upper_bounded_loop(_, _, _)
upper_bounded_loop(backtrack_causes, i, upper_bounded) ==
  IF i > Len(backtrack_causes) THEN upper_bounded
  ELSE LET requirement == backtrack_causes[i].requirement
       IN  IF requirement.kind # "SpecifierRequirement"
           THEN upper_bounded_loop(backtrack_causes, i + 1, upper_bounded)
           ELSE IF has_upper_bound_loop(requirement.ireq.specifier, 1)
           THEN upper_bounded_loop(backtrack_causes, i + 1,
                  upper_bounded \cup {requirement.name, requirement.project_name})
           ELSE upper_bounded_loop(backtrack_causes, i + 1, upper_bounded)

\* unpin_requirement: the names returned ([] and the empty set are both {})
unpin_requirement(identifiers, backtrack_causes) ==
  IF Len(backtrack_causes) = 0 THEN {}
  ELSE LET upper_bounded == upper_bounded_loop(backtrack_causes, 1, {})
       IN  IF upper_bounded = {} THEN {}
           ELSE LET requirements_to_unpin == upper_bounded \ identifiers
                IN  IF requirements_to_unpin # {} THEN requirements_to_unpin ELSE {}

\* one unpin_requirement call on the provider
UnpinRequirement(identifiers, backtrack_causes) ==
  /\ call' = [op |-> "unpin_requirement", identifiers |-> identifiers,
              backtrack_causes |-> backtrack_causes,
              ret |-> unpin_requirement(identifiers, backtrack_causes)]
  /\ UNCHANGED <<known_depths, user_requested, constraints, upgrade_strategy,
                 ignore_dependencies, ordVars, extVars>>

UnpinSpecifierSets ==
  {<<>>, <<Specifier(OpLess, Version10)>>, <<Specifier(OpLessEqual, Version10)>>,
   <<Specifier(OpGreaterEqual, Version10)>>, <<Specifier(OpEqual, Version10)>>,
   <<Specifier(OpGreaterEqual, Version10), Specifier(OpLess, Version10)>>}

UnpinRequirements ==
  {ExplicitRequirement(IdDep)}
    \cup {NamedSpecifierRequirement(IdDepRaw, IdDep, ss) : ss \in UnpinSpecifierSets}
    \cup {NamedSpecifierRequirement(IdPinned, IdPinned, ss) : ss \in UnpinSpecifierSets}

UnpinCauses ==
  SeqUpTo({RequirementInformation(r, None) : r \in UnpinRequirements}, MaxCauses + 1)

UnpinIdentifiers == SUBSET {IdDepRaw, IdDep, IdPinned}

\* PipProvider.__init__, and the arguments the solver is about to pass
UnpinInit ==
  /\ OrderedStructureInit
  /\ known_depths = <<>>
  /\ user_requested = <<>>
  /\ constraints = <<>>
  /\ upgrade_strategy = "to-satisfy-only"
  /\ ignore_dependencies = FALSE
  /\ solver = NoResolution
  /\ cache = NoCache
  /\ \E identifiers \in UnpinIdentifiers, backtrack_causes \in UnpinCauses :
       call = [op |-> "arguments", identifiers |-> identifiers,
               backtrack_causes |-> backtrack_causes, ret |-> None]

UnpinNext == UnpinRequirement(call.identifiers, call.backtrack_causes)

UnpinSpec == UnpinInit /\ [][UnpinNext]_vars

\* --- the provider's operations, called in any order
\* identify(requirement_or_candidate)
identify(requirement_or_candidate) == requirement_or_candidate.name

\* Requirement.is_satisfied_by(candidate): an explicit requirement holds its
\* candidate, a specifier requirement goes by the name
requirement_is_satisfied_by(requirement, candidate) ==
  IF requirement.kind = "ExplicitRequirement" THEN candidate = requirement.candidate
  ELSE candidate.name = requirement.name

\* is_satisfied_by(requirement, candidate)
is_satisfied_by(requirement, candidate) == requirement_is_satisfied_by(requirement, candidate)

\* Candidate.iter_dependencies(with_requires): the requirements of the
\* candidate when asked for, then its Requires-Python requirement or None
iter_dependencies(candidate, with_requires) ==
  (IF with_requires THEN <<SpecifierRequirement(IdDep, <<>>), None>> ELSE <<>>)
    \o (IF candidate.name = IdPinned
        THEN <<SpecifierRequirement(REQUIRES_PYTHON_IDENTIFIER, <<>>)>>
        ELSE <<None>>)

\* [r for r in ... if r is not None]
RECURSIVE not_none(_, _)
not_none(rs, i) ==
  IF i > Len(rs) THEN <<>>
  ELSE IF rs[i] # None THEN <<rs[i]>> \o not_none(rs, i + 1)
  ELSE not_none(rs, i + 1)

\* get_dependencies(candidate)
get_dependencies(ignore, candidate) ==
  LET with_requires == ~ignore
  IN  not_none(iter_dependencies(candidate, with_requires), 1)

Identify(requirement_or_candidate) ==
  /\ call' = [op |-> "identify", ret |-> identify(requirement_or_candidate)]
  /\ UNCHANGED <<known_depths, user_requested, constraints, upgrade_strategy,
                 ignore_dependencies, ordVars, extVars>>

IsSatisfiedBy(requirement, candidate) ==
  /\ call' = [op |-> "is_satisfied_by", requirement |-> requirement,
              candidate |-> candidate, ret |-> is_satisfied_by(requirement, candidate)]
  /\ UNCHANGED <<known_depths, user_requested, constraints, upgrade_strategy,
                 ignore_dependencies, ordVars, extVars>>

GetDependencies(candidate) ==
  /\ call' = [op |-> "get_dependencies", candidate |-> candidate,
              ret |-> get_dependencies(ignore_dependencies, candidate)]
  /\ UNCHANGED <<known_depths, user_requested, constraints, upgrade_strategy,
                 ignore_dependencies, ordVars, extVars>>

IsBacktrackCause(identifier, backtrack_causes) ==
  /\ call' = [op |-> "is_backtrack_cause", identifier |-> identifier,
              backtrack_causes |-> backtrack_causes,
              ret |-> is_backtrack_cause(identifier, backtrack_causes)]
  /\ UNCHANGED <<known_depths, user_requested, constraints, upgrade_strategy,
                 ignore_dependencies, ordVars, extVars>>

\* the providers constructed
ProviderConfigs ==
  {[constraints |-> <<>>, upgrade_strategy |-> "to-satisfy-only",
    ignore_dependencies |-> FALSE],
   [constraints |-> [k \in {IdDep} |-> Constraint(<<Specifier(OpLess, Version10)>>)],
    upgrade_strategy |-> "only-if-needed", ignore_dependencies |-> TRUE]}

ProviderObjects ==
  {Candidate(IdPinned), Candidate(IdDep), ExplicitRequirement(IdPinned),
   SpecifierRequirement(IdDep, <<>>)}

ProviderInit ==
  /\ OrderedStructureInit
  /\ known_depths = <<>>
  /\ user_requested \in {<<>>, [k \in {IdPinned} |-> 1]}
  /\ \E config \in ProviderConfigs :
       /\ constraints = config.constraints
       /\ upgrade_strategy = config.upgrade_strategy
       /\ ignore_dependencies = config.ignore_dependencies
  /\ solver = NoResolution
  /\ cache = NoCache
  /\ call = NoCall

ProviderNext ==
  \/ \E identifier \in DepthIdentifiers :
       \E information \in DepthInformation(identifier) :
         GetPreference(identifier, information, <<>>)
  \/ \E x \in ProviderObjects : Identify(x)
  \/ \E identifier \in {IdDep, IdDepExtra} :
       FindMatches(identifier, [k \in {identifier} |-> <<>>], [k \in {identifier} |-> <<>>])
  \/ \E requirement \in {ExplicitRequirement(IdPinned), SpecifierRequirement(IdDep, <<>>)},
        candidate \in {Candidate(IdPinned), Candidate(IdDep)} :
       IsSatisfiedBy(requirement, candidate)
  \/ \E candidate \in {Candidate(IdPinned), Candidate(IdDep)} : GetDependencies(candidate)
  \/ \E identifier \in DepthIdentifiers, backtrack_causes \in KeyCauses :
       IsBacktrackCause(identifier, backtrack_causes)
  \/ \E identifiers \in {{}, {IdDep}} :
       \E backtrack_causes \in
            SeqUpTo({RequirementInformation(
                       NamedSpecifierRequirement(IdDepRaw, IdDep,
                                                 <<Specifier(OpLess, Version10)>>), None),
                     RequirementInformation(ExplicitRequirement(IdDep), None)}, MaxCauses) :
         UnpinRequirement(identifiers, backtrack_causes)

ProviderSpec == ProviderInit /\ [][ProviderNext]_vars

\* ------------------------------------------- the round budget and the solver
\* The Resolver and the external solver's round loop, as the specification
\* and the tests of the round budget describe them.
MaxRounds == 5    \* largest small round budget drawn
DefaultMaxResolutionRounds == 200000

\* the packages of the end-to-end example: complex-pkg requires dep-a and
\* dep-b, dep-a requires dep-b, dep-b requires dep-a
Packages == {"complex-pkg", "dep-a", "dep-b"}
Dependencies(name) ==
  IF name = "complex-pkg" THEN {"dep-a", "dep-b"}
  ELSE IF name = "dep-a" THEN {"dep-b"}
  ELSE {"dep-a"}

\* options.max_resolution_rounds, or no value supplied
RoundsNotGiven == [given |-> FALSE, value |-> 0]
RoundsGiven(n) == [given |-> TRUE, value |-> n]
RoundsOptions == {RoundsNotGiven} \cup {RoundsGiven(n) : n \in (1..MaxRounds) \cup {5000}}

\* (variant: a default ten times as large)
resolver_max_resolution_rounds_large_default(option) ==
  IF option.given THEN option.value ELSE 10 * DefaultMaxResolutionRounds

\* Resolver(..., max_resolution_rounds=...).max_resolution_rounds
resolver_max_resolution_rounds(option) ==
  IF option.given THEN option.value ELSE DefaultMaxResolutionRounds

\* (variant: one round more than the budget)
round_allowed_one_more(round, max_rounds) == round <= max_rounds

\* the solver starts another round only below the budget
round_allowed(round, max_rounds) == round < max_rounds

\* make_resolver: the Resolver is built from the options
MakeResolver ==
  /\ solver.phase = "options"
  /\ solver' = [solver EXCEPT !.phase = "resolver",
                  !.max_resolution_rounds = resolver_max_resolution_rounds(solver.option)]
  /\ UNCHANGED <<ordVars, provVars, cache>>

\* Resolver.resolve: the solver's resolve is called with max_rounds and the
\* root requirements
Resolve ==
  /\ solver.phase = "resolver"
  /\ solver' = [solver EXCEPT !.phase = "resolving",
                  !.max_rounds = solver.max_resolution_rounds,
                  !.round = 0, !.criteria = solver.roots, !.pinned = {}]
  /\ UNCHANGED <<ordVars, provVars, cache>>

\* a round that finds every name pinned: the resolution succeeds
RoundSucceeds ==
  /\ solver.phase = "resolving"
  /\ round_allowed(solver.round, solver.max_rounds)
  /\ solver.criteria \ solver.pinned = {}
  /\ solver' = [solver EXCEPT !.phase = "succeeded"]
  /\ UNCHANGED <<ordVars, provVars, cache>>

\* a round that pins one unresolved name and adds its dependencies
RoundPins ==
  /\ solver.phase = "resolving"
  /\ round_allowed(solver.round, solver.max_rounds)
  /\ \E name \in solver.criteria \ solver.pinned :
       solver' = [solver EXCEPT !.round = solver.round + 1,
                    !.pinned = solver.pinned \cup {name},
                    !.criteria = solver.criteria \cup Dependencies(name)]
  /\ UNCHANGED <<ordVars, provVars, cache>>

\* the budget is used up: the resolution fails with the exhaustion error
TooDeep ==
  /\ solver.phase = "resolving"
  /\ ~round_allowed(solver.round, solver.max_rounds)
  /\ solver' = [solver EXCEPT !.phase = "too_deep"]
  /\ UNCHANGED <<ordVars, provVars, cache>>

SolverInit ==
  /\ OrderedStructureInit
  /\ known_depths = <<>>
  /\ user_requested = <<>>
  /\ constraints = <<>>
  /\ upgrade_strategy = "to-satisfy-only"
  /\ ignore_dependencies = FALSE
  /\ cache = NoCache
  /\ call = NoCall
  /\ \E option \in RoundsOptions, roots \in (SUBSET Packages) \ {{}} :
       solver = [phase |-> "options", option |-> option, roots |-> roots,
                 max_resolution_rounds |-> 0, max_rounds |-> 0, round |-> 0,
                 criteria |-> {}, pinned |-> {}]

SolverNext ==
  \/ MakeResolver
  \/ Resolve
  \/ RoundSucceeds
  \/ RoundPins
  \/ TooDeep

SolverSpec == SolverInit /\ [][SolverNext]_vars

\* the solver's loop runs to its end: single-threaded, call and return
SolverFairSpec == SolverSpec /\ WF_vars(SolverNext)

\* ------------------------------------------------------------ Value Cache
\* The lru_cache wrappers of pip._internal.packaging.  The functions they wrap
\* belong to the packaging library; they are given here on a small domain.
MaxCached == 2    \* most entries the memo tables hold together

\* argument values
Str(text) == [kind |-> "str", text |-> text]
VersionObject(release, pre) == [kind |-> "Version", release |-> release, pre |-> pre]
LegacyVersionObject(text) == [kind |-> "LegacyVersion", text |-> text]
V10 == VersionObject(<<1, 0>>, FALSE)
V15 == VersionObject(<<1, 5>>, FALSE)
V20a1 == VersionObject(<<2, 0>>, TRUE)

Returned(value) == [raised |-> FALSE, value |-> value]
Raised(error) == [raised |-> TRUE, value |-> error]

\* packaging.version.parse
parse(version) ==
  IF version = Str("1.0") THEN Returned(V10)
  ELSE IF version = Str("2.0a1") THEN Returned(V20a1)
  ELSE Returned(LegacyVersionObject(version.text))

\* packaging.version.Version(version)
new_version(version) ==
  IF version = Str("1.0") THEN Returned(V10)
  ELSE IF version = Str("2.0a1") THEN Returned(V20a1)
  ELSE Raised("InvalidVersion")

\* packaging.utils.canonicalize_name
packaging_canonicalize_name(name) ==
  IF name \in {Str("Dep"), Str("dep")} THEN Returned(Str("dep"))
  ELSE IF name = Str("d_e.p") THEN Returned(Str("d-e-p"))
  ELSE Returned(name)

\* packaging.utils.canonicalize_version
packaging_canonicalize_version(version) ==
  IF version \in {Str("1.0"), Str("1.0.0"), V10} THEN Returned(Str("1"))
  ELSE IF version \in {Str("2.0a1"), V20a1} THEN Returned(Str("2a1"))
  ELSE Returned(version)

\* the release of a specifier's version text
SpecifierRelease(text) ==
  IF text = "1.0" THEN <<1, 0>>
  ELSE IF text = "1.0.0" THEN <<1, 0, 0>>
  ELSE <<1, 5>>

\* the order of the versions drawn (releases padded with zeros)
ReleasePart(release, i) == IF i <= Len(release) THEN release[i] ELSE 0
ReleaseRank(release) ==
  100 * ReleasePart(release, 1) + 10 * ReleasePart(release, 2) + ReleasePart(release, 3)
VersionRank(v) == 10 * ReleaseRank(v.release) - (IF v.pre THEN 1 ELSE 0)

\* Specifier.contains for one specifier; "~=" is ">=" together with a prefix
\* match on the release without its last part
specifier_holds(specifier, v) ==
  LET release == SpecifierRelease(specifier.version)
  IN  IF specifier.operator = OpGreaterEqual
      THEN VersionRank(v) >= 10 * ReleaseRank(release)
      ELSE IF specifier.operator = OpLess
      THEN VersionRank(v) < 10 * ReleaseRank(release)
      ELSE IF specifier.operator = OpCompatible
      THEN /\ VersionRank(v) >= 10 * ReleaseRank(release)
           /\ \A i \in 1..(Len(release) - 1) : ReleasePart(v.release, i) = release[i]
      ELSE VersionRank(v) = 10 * ReleaseRank(release)

\* SpecifierSet.contains(item, prereleases=prereleases)
contains(specifier, candidate_version, prereleases) ==
  IF ~prereleases /\ candidate_version.pre THEN FALSE
  ELSE \A i \in 1..Len(specifier) : specifier_holds(specifier[i], candidate_version)

\* the body of specifier_contains
specifier_contains_body(specifier, candidate_version, prereleases) ==
  IF contains(specifier, candidate_version, prereleases) THEN Returned(TRUE)
  ELSE Returned(FALSE)

\* the function each wrapper calls on a miss
uncached(f, args) ==
  IF f = "specifier_contains" THEN specifier_contains_body(args[1], args[2], args[3])
  ELSE IF f = "parse_version" THEN parse(args[1])
  ELSE IF f = "parse_new_version" THEN new_version(args[1])
  ELSE IF f = "canonicalize_name" THEN packaging_canonicalize_name(args[1])
  ELSE packaging_canonicalize_version(args[1])

\* Specifier.__eq__ / __hash__: the operator and the canonical version
canonical_spec(specifier) ==
  <<specifier.operator, packaging_canonicalize_version(Str(specifier.version)).value>>

\* the key lru_cache files a call under: the arguments as __eq__ and __hash__
\* tell them apart (a SpecifierSet is the set of its specifiers)
cache_key(f, args) ==
  IF f = "specifier_contains"
  THEN <<{canonical_spec(args[1][i]) : i \in 1..Len(args[1])}, args[2], args[3]>>
  ELSE args

CacheSize(c) ==
  Cardinality(DOMAIN c["specifier_contains"]) + Cardinality(DOMAIN c["parse_version"])
    + Cardinality(DOMAIN c["parse_new_version"]) + Cardinality(DOMAIN c["canonicalize_name"])
    + Cardinality(DOMAIN c["canonicalize_version"])

CacheStore(c, f, key, value) ==
  [c EXCEPT ![f] = [k \in DOMAIN c[f] \cup {key} |-> IF k = key THEN value ELSE c[f][k]]]

\* a call of a wrapper that finds its key in the table
CacheHit(f, args) ==
  /\ cache_key(f, args) \in DOMAIN cache[f]
  /\ call' = [op |-> "cached", function |-> f, args |-> args, hit |-> TRUE,
              ret |-> Returned(cache[f][cache_key(f, args)])]
  /\ UNCHANGED <<cache, solver, known_depths, user_requested, constraints,
                 upgrade_strategy, ignore_dependencies, ordVars>>

\* a call of a wrapper that misses: the wrapped function runs, and its value
\* is stored unless it raised
CacheMiss(f, args) ==
  LET r == uncached(f, args)
  IN  /\ cache_key(f, args) \notin DOMAIN cache[f]
      /\ r.raised \/ CacheSize(cache) < MaxCached
      /\ call' = [op |-> "cached", function |-> f, args |-> args, hit |-> FALSE,
                  ret |-> r]
      /\ cache' = IF r.raised THEN cache
                  ELSE CacheStore(cache, f, cache_key(f, args), r.value)
      /\ UNCHANGED <<solver, known_depths, user_requested, constraints,
                     upgrade_strategy, ignore_dependencies, ordVars>>

CacheSpecifierSets ==
  {<<>>, <<Specifier(OpGreaterEqual, "1.0")>>,
   <<Specifier(OpGreaterEqual, "1.0"), Specifier(OpLess, "1.5")>>,
   <<Specifier(OpLess, "1.5"), Specifier(OpGreaterEqual, "1.0")>>,
   <<Specifier(OpCompatible, "1.0")>>, <<Specifier(OpCompatible, "1.0.0")>>}

\* the argument tuples drawn for each wrapper
CacheArgs(f) ==
  IF f = "specifier_contains"
  THEN CacheSpecifierSets \X {V10, V15, V20a1} \X BOOLEAN
  ELSE IF f \in {"parse_version", "parse_new_version"}
  THEN {<<Str("1.0")>>, <<Str("2.0a1")>>, <<Str("bad")>>}
  ELSE IF f = "canonicalize_name"
  THEN {<<Str("Dep")>>, <<Str("dep")>>, <<Str("d_e.p")>>}
  ELSE {<<Str("1.0")>>, <<Str("2.0a1")>>, <<V10>>}

CacheInit ==
  /\ OrderedStructureInit
  /\ known_depths = <<>>
  /\ user_requested = <<>>
  /\ constraints = <<>>
  /\ upgrade_strategy = "to-satisfy-only"
  /\ ignore_dependencies = FALSE
  /\ solver = NoResolution
  /\ cache = NoCache
  /\ call = NoCall

CacheNext ==
  \E f \in CachedFunctions : \E args \in CacheArgs(f) :
    \/ CacheHit(f, args)
    \/ CacheMiss(f, args)

CacheSpec == CacheInit /\ [][CacheNext]_vars

\* ------------------------------------------------ claims: ordering structure
\* The nodes ever named by a successful add_relation.
Registered == {e[1] : e \in succeeded} \cup {e[2] : e \in succeeded}

\* n reaches m over one or more recorded edges (least fixed point, computed
\* independently of _has_path).
RECURSIVE ReachFrom(_, _)
ReachFrom(E, S) ==
  LET T == S \cup {e[2] : e \in {f \in E : f[1] \in S}}
  IN  IF T = S THEN S ELSE ReachFrom(E, T)

Reaches(E, n, m) == m \in ReachFrom(E, {e[2] : e \in {f \in E : f[1] = n}})

\* 0-based place of x in s
Place(s, x) == CHOOSE i \in 0..(Len(s) - 1) : s[i + 1] = x

\* C1: after any sequence of add_relation calls the recorded graph is acyclic:
\* no registered node has a path of one or more edges back to itself.
C1_Acyclic == \A n \in DOMAIN graph : ~Reaches(Edges(graph), n, n)

\* C2: once add_relation(a, b) has succeeded, a later add_relation(b, a)
\* raises, and leaves the node set and the edge set exactly as they were.
C2_ReverseRejected ==
  [][\A a \in Node, b \in Node :
       (/\ <<a, b>> \in succeeded
        /\ result'.op = "add_relation"
        /\ result'.args = <<b, a>>)
       => (result'.raised /\ graph' = graph /\ nodes' = nodes)]_vars

C2_Witness ==
  /\ result.op = "add_relation"
  /\ result.raised
  /\ result.args[1] # result.args[2]
  /\ <<result.args[2], result.args[1]>> \in succeeded
  /\ <<result.args[2], result.args[1]>> \in Edges(graph)

\* C3: for every edge a -> b successfully added, the list topological_sort()
\* returns has a at a strictly smaller index than b.
C3_SortRespectsEdges ==
  result.op = "topological_sort" =>
    \A e \in succeeded :
      /\ e[1] \in Range(result.value)
      /\ e[2] \in Range(result.value)
      /\ Place(result.value, e[1]) < Place(result.value, e[2])

\* C4: find_position(element) is -1 when element was never registered, and
\* otherwise the 0-based index of element in the list topological_sort()
\* returns on the same graph state; it never raises.
C4_FindPosition ==
  result.op = "find_position" =>
    LET element == result.args[1]
        sorted == topological_sort(graph, nodes)
    IN  /\ ~result.raised
        /\ element \notin Registered => result.value = -1
        /\ element \in Registered =>
             /\ result.value \in 0..(Len(sorted) - 1)
             /\ sorted[result.value + 1] = element

C4_Witness ==
  /\ result.op = "find_position"
  /\ result.value = 1
  /\ Registered # Node

\* ------------------------------------------------------ claims: get_preference
CallDone == call.op = "get_preference"

\* the information entries of the identifier of the last call
CallInfos == call.information[call.identifier]

\* every specifier of every specifier set associated with the identifier
CollectedSpecifiers ==
  UNION {Range(CallInfos[i].requirement.ireq.specifier) :
           i \in {j \in 1..Len(CallInfos) :
                    CallInfos[j].requirement.kind = "SpecifierRequirement"}}

CollectedOperators == {sp.operator : sp \in CollectedSpecifiers}

\* C5: direct is true iff at least one associated requirement has a candidate
\* lookup that carries a concrete candidate; with only version-range specifier
\* requirements direct is false, so the key's "not direct" component is True.
C5_DirectIffConcreteCandidate ==
  CallDone =>
    (call.ret[2] = ~(\E i \in 1..Len(CallInfos) :
                       get_candidate_lookup(CallInfos[i].requirement)[1] # None))

\* C6: for pinned-package with the single requirement pinned-package==1.0, no
\* backtrack causes and user-requested order 1, the key is exactly the
\* seven-component tuple (True, True, False, True, 1, False, "pinned-package").
C6_PinnedPackageKey ==
  (/\ CallDone
   /\ call.identifier = IdPinned
   /\ CallInfos = <<RequirementInformation(
                      SpecifierRequirement(IdPinned, <<Specifier(OpEqual, Version10)>>),
                      None)>>
   /\ call.backtrack_causes = <<>>
   /\ IdPinned \in DOMAIN user_requested
   /\ user_requested[IdPinned] = 1)
  => /\ Len(call.ret) = 7
     /\ call.ret = <<TRUE, TRUE, FALSE, TRUE, Fin(1), FALSE, IdPinned>>

C8_WildcardNotPinned ==
  (/\ CallDone
   /\ CollectedSpecifiers = {Specifier(OpEqual, Version1Star)})
  => call.ret[3] = TRUE

EntryDepth(before, e) ==
  IF e.parent = None THEN Fin(0)
  ELSE IF e.parent.name \in DOMAIN before THEN before[e.parent.name]
  ELSE Inf

LeastOf(S) == CHOOSE x \in S : \A y \in S : x.inf => y.inf /\ (~x.inf /\ ~y.inf => x.val <= y.val)

ExpectedDepth ==
  IF call.identifier \in DOMAIN user_requested THEN Fin(1)
  ELSE IF Len(CallInfos) > 0
       THEN LET least == LeastOf({EntryDepth(call.known_depths_before, CallInfos[i]) :
                                    i \in 1..Len(CallInfos)})
            IN  IF least.inf THEN Inf ELSE Fin(least.val + 1)
       ELSE Inf

\* C10: inferred_depth is 1 for a user-requested identifier; otherwise, with
\* information, 1 plus the least over the entries of (0 for no parent, else
\* the table's value for the parent's name, +infinity when it has none);
\* otherwise +infinity.  The value is stored in the table under the
\* identifier, overwriting any earlier value.
C10_InferredDepth ==
  CallDone =>
    /\ call.ret[5] = ExpectedDepth
    /\ call.identifier \in DOMAIN known_depths
    /\ known_depths[call.identifier] = ExpectedDepth

C10_Witness ==
  /\ CallDone
  /\ call.identifier \notin DOMAIN user_requested
  /\ Len(CallInfos) = 2
  /\ call.identifier \in DOMAIN call.known_depths_before
  /\ call.known_depths_before[call.identifier] = Fin(1)
  /\ known_depths[call.identifier] = Fin(3)

\* C11: on the Requires-Python identifier the key's first component is False,
\* on every other identifier it is True, whatever the information, the causes,
\* user_requested and the table; so the Requires-Python key sorts before the
\* key of every other identifier (the keys differ at the first component,
\* where False < True).
C11_RequiresPythonFirst ==
  CallDone =>
    /\ call.identifier = REQUIRES_PYTHON_IDENTIFIER => call.ret[1] = FALSE
    /\ call.identifier # REQUIRES_PYTHON_IDENTIFIER => call.ret[1] = TRUE
    /\ \A other \in KeyIdentifiers \cup DepthIdentifiers :
         \A information \in [{other} -> SeqUpTo({RequirementInformation(r, None) :
                                                   r \in Requirements(other)}, 1)] :
           LET key == get_preference(known_depths, user_requested, other, information,
                                     call.backtrack_causes).key
           IN  (call.identifier = REQUIRES_PYTHON_IDENTIFIER
                  /\ other # REQUIRES_PYTHON_IDENTIFIER)
               => (call.ret[1] # key[1] /\ ~call.ret[1] /\ key[1])

C11_Witness ==
  /\ CallDone
  /\ call.identifier = REQUIRES_PYTHON_IDENTIFIER
  /\ REQUIRES_PYTHON_IDENTIFIER \in DOMAIN user_requested
  /\ Len(CallInfos) = 2
  /\ Len(call.backtrack_causes) = 1
  /\ call.ret[1] = FALSE

\* C12: is_backtrack_cause(identifier, backtrack_causes) is true iff identifier
\* equals the requirement name of some cause or the name of some cause's
\* non-null parent; the key's fourth component is its negation.
IsNamedByCause(identifier, causes) ==
  \E i \in 1..Len(causes) :
    \/ causes[i].requirement.name = identifier
    \/ causes[i].parent # None /\ causes[i].parent.name = identifier

C12_BacktrackCause ==
  CallDone =>
    /\ is_backtrack_cause(call.identifier, call.backtrack_causes)
         = IsNamedByCause(call.identifier, call.backtrack_causes)
    /\ call.ret[4] = ~IsNamedByCause(call.identifier, call.backtrack_causes)

C12_Witness ==
  /\ CallDone
  /\ Len(call.backtrack_causes) = 1
  /\ call.backtrack_causes[1].requirement.name # call.identifier
  /\ call.backtrack_causes[1].parent # None
  /\ call.backtrack_causes[1].parent.name = call.identifier
  /\ call.ret[4] = FALSE

C19_SortIsPermutation ==
  result.op = "topological_sort" =>
    /\ Range(result.value) = Registered
    /\ Len(result.value) = Cardinality(Registered)
    /\ \A i, j \in 1..Len(result.value) : result.value[i] = result.value[j] => i = j

C19_Witness ==
  /\ result.op = "topological_sort"
  /\ Registered = Node
  /\ Cardinality(Edges(graph)) >= 3
  /\ Len(result.value) = 3

\* ------------------------------------------------------ claims: find_matches
HasBracket(identifier) == \E i \in 1..Len(identifier) : identifier[i] = "["

\* the part of an identifier before its first "["
BaseName(identifier) ==
  LET k == CHOOSE i \in 1..Len(identifier) :
             identifier[i] = "[" /\ \A j \in 1..(i - 1) : identifier[j] # "["
  IN  [i \in 1..(k - 1) |-> identifier[i]]

MatchDone == call.op = "find_matches"

\* C14: find_matches passes prefers_installed as the negation of upgrade
\* eligibility: under "eager" always False; under "only-if-needed" False exactly
\* when the identifier, or its base name before the first "[", is a key of
\* user_requested; under any other strategy always True.
C14_PrefersInstalled ==
  MatchDone =>
    LET identifier == call.identifier
        requested ==
          \/ identifier \in DOMAIN user_requested
          \/ HasBracket(identifier) /\ BaseName(identifier) \in DOMAIN user_requested
    IN  /\ upgrade_strategy = "eager" => call.ret.prefers_installed = FALSE
        /\ upgrade_strategy = "only-if-needed" =>
              call.ret.prefers_installed = ~requested
        /\ upgrade_strategy \notin {"eager", "only-if-needed"} =>
              call.ret.prefers_installed = TRUE

\* an identifier with extras, requested only under its base name
C14_Witness ==
  /\ MatchDone
  /\ upgrade_strategy = "only-if-needed"
  /\ call.identifier = IdDepExtra
  /\ DOMAIN user_requested = {IdDep}
  /\ call.ret.prefers_installed = FALSE

\* C20: the lookup find_matches uses for constraints returns the mapping's
\* value for the identifier when the identifier is a key; else, when the
\* identifier contains "[" and the part before the first "[" is a key, that
\* key's value; else the default, the empty constraint.  An entry for the
\* exact identifier takes precedence over the base-name entry.
C20_ConstraintLookup ==
  MatchDone =>
    LET identifier == call.identifier
        constraint == call.ret.constraint
    IN  IF identifier \in DOMAIN constraints
        THEN constraint = constraints[identifier]
        ELSE IF HasBracket(identifier) /\ BaseName(identifier) \in DOMAIN constraints
        THEN constraint = constraints[BaseName(identifier)]
        ELSE constraint = ConstraintEmpty

\* both the exact identifier and its base name are keys
C20_Witness ==
  /\ MatchDone
  /\ call.identifier = IdDepExtra
  /\ {IdDep, IdDepExtra} \subseteq DOMAIN constraints
  /\ call.ret.constraint = constraints[IdDepExtra]
  /\ call.ret.constraint # constraints[IdDep]

\* ------------------------------------------------- claims: unpin_requirement
UnpinDone == call.op = "unpin_requirement"

\* the causes whose requirement is a range-specifier requirement with at least
\* one "<" or "<=" operator
UpperBoundedCauses(causes) ==
  {c \in Range(causes) :
     /\ c.requirement.kind = "SpecifierRequirement"
     /\ \E j \in 1..Len(c.requirement.ireq.specifier) :
          c.requirement.ireq.specifier[j].operator \in {<<"<">>, <<"<", "=">>}}

UpperBoundedNames(causes) ==
  UNION {{c.requirement.name, c.requirement.project_name} : c \in UpperBoundedCauses(causes)}

\* C13: unpin_requirement returns exactly U minus identifiers, U holding the
\* name and the project name of every backtrack cause whose requirement is a
\* range-specifier requirement with a "<" or "<=" operator, and nothing else;
\* the result is empty when there are no causes, when no cause has an upper
\* bound, and when all of U is in identifiers; no returned name is in
\* identifiers.
C13_Unpin ==
  UnpinDone =>
    LET U == UpperBoundedNames(call.backtrack_causes)
    IN  /\ call.ret = U \ call.identifiers
        /\ Len(call.backtrack_causes) = 0 => call.ret = {}
        /\ UpperBoundedCauses(call.backtrack_causes) = {} => call.ret = {}
        /\ U \subseteq call.identifiers => call.ret = {}
        /\ call.ret \cap call.identifiers = {}

\* two upper-bounded causes of different names, one name already excluded
C13_Witness ==
  /\ UnpinDone
  /\ Len(call.backtrack_causes) = 2
  /\ call.backtrack_causes[1].requirement.kind = "SpecifierRequirement"
  /\ call.backtrack_causes[1].requirement.ireq.specifier
       = <<Specifier(OpGreaterEqual, Version10), Specifier(OpLess, Version10)>>
  /\ call.backtrack_causes[2].requirement.name = IdPinned
  /\ call.identifiers = {IdDep}
  /\ call.ret = {IdDepRaw, IdPinned}

\* ------------------------------------------------------ claims: round budget
SolverEnded == solver.phase \in {"succeeded", "too_deep"}
CyclicExample == solver.roots = {"complex-pkg"}
SufficientRounds == Cardinality(Packages) + 1

\* C15: a resolution with round budget N always ends: it never runs more than
\* N rounds, and it eventually has succeeded or failed with the exhaustion
\* error.  For the cyclic example a budget of 1 ends in that failure and a
\* budget large enough ends in success.
C15_Terminates ==
  /\ [](solver.phase \in {"resolving", "succeeded", "too_deep"}
          => solver.round <= solver.max_rounds)
  /\ <>SolverEnded
  /\ [](SolverEnded /\ CyclicExample /\ solver.max_rounds = 1
          => solver.phase = "too_deep")
  /\ [](SolverEnded /\ CyclicExample /\ solver.max_rounds >= SufficientRounds
          => solver.phase = "succeeded")

C15_Witness ==
  /\ solver.phase = "too_deep"
  /\ CyclicExample
  /\ solver.max_rounds = 1
  /\ solver.round = 1
  /\ solver.pinned = {"complex-pkg"}

\* C16: the round budget is 200000 when the caller gives none; a value the
\* caller gives reaches the Resolver unchanged and is the max_rounds handed to
\* the solver's resolve.
C16_BudgetPassedOn ==
  /\ solver.phase \in {"resolver", "resolving", "succeeded", "too_deep"} =>
        /\ ~solver.option.given => solver.max_resolution_rounds = 200000
        /\ solver.option.given => solver.max_resolution_rounds = solver.option.value
  /\ solver.phase \in {"resolving", "succeeded", "too_deep"} =>
        /\ solver.max_rounds = solver.max_resolution_rounds
        /\ ~solver.option.given => solver.max_rounds = 200000
        /\ solver.option.given => solver.max_rounds = solver.option.value

C16_Witness ==
  /\ solver.phase = "resolving"
  /\ ~solver.option.given
  /\ solver.max_rounds = 200000
  /\ solver.round > 0

\* ------------------------------------------------------- claims: Value Cache
CachedDone == call.op = "cached"

\* C17: over any sequence of calls each memoized function returns what the
\* function it wraps returns for the same arguments; specifier_contains
\* returns True exactly when the specifier set's contains check with the given
\* prereleases flag succeeds, and False otherwise.
C17_CachedEqualsUncached ==
  CachedDone =>
    /\ call.ret = uncached(call.function, call.args)
    /\ call.function = "specifier_contains" =>
          /\ ~call.ret.raised
          /\ call.ret.value \in BOOLEAN
          /\ call.ret.value = contains(call.args[1], call.args[2], call.args[3])

\* -------------------------------------------- claims: the known-depth table
\* C21: two consecutive get_preference calls with identical arguments, nothing
\* between them, from any reachable table, return equal keys, and the table
\* after the second equals the table after the first; entries whose parent
\* has the identifier's own name included.
C21_RepeatedCall ==
  [][ ( /\ call.op = "get_preference"
        /\ call'.op = "get_preference"
        /\ call'.identifier = call.identifier
        /\ call'.information = call.information
        /\ call'.backtrack_causes = call.backtrack_causes )
      => (call'.ret = call.ret /\ known_depths' = known_depths) ]_vars

\* C22: from an empty table, every value the table holds after any sequence of
\* get_preference calls is +infinity or a number >= 1; never 0, never negative.
C22_DepthsAtLeastOne ==
  \A name \in DOMAIN known_depths :
    known_depths[name].inf \/ known_depths[name].val >= 1

\* a root entry beside an entry whose parent was unknown: the read of the
\* parent stored +infinity, the identifier got depth one
C22_Witness ==
  /\ CallDone
  /\ call.identifier \notin DOMAIN user_requested
  /\ Len(CallInfos) = 2
  /\ \E i \in 1..Len(CallInfos) : CallInfos[i].parent = None
  /\ \E name \in DOMAIN known_depths \ DOMAIN call.known_depths_before :
       name # call.identifier /\ known_depths[name].inf
  /\ known_depths[call.identifier] = Fin(1)

\* the table is one that no further call changes
TableSettled ==
  \A identifier \in DepthIdentifiers :
    get_preference(known_depths, user_requested, identifier, solver.information,
                   <<>>).known_depths = known_depths

\* each identifier's depth is what its parents' depths in the table give
TableSolved ==
  \A identifier \in DepthIdentifiers :
    LET infos == solver.information[identifier]
        least == LeastOf({EntryDepth(known_depths, infos[i]) : i \in 1..Len(infos)})
    IN  IF identifier \in DOMAIN user_requested
        THEN identifier \in DOMAIN known_depths /\ known_depths[identifier] = Fin(1)
        ELSE Len(infos) > 0 =>
               /\ identifier \in DOMAIN known_depths
               /\ known_depths[identifier] = (IF least.inf THEN Inf ELSE Fin(least.val + 1))

\* C23: with a fixed information mapping, from an empty table, calling
\* get_preference again and again for every identifier in any fair order
\* eventually reaches a table that further calls no longer change; in it each
\* user-requested identifier has depth 1 and each other identifier with
\* information has 1 plus the least depth of its parents (0 for no parent).
C23_TableConverges == <>[](TableSettled /\ TableSolved)

\* settled at depth two behind a requested parent, the identifier being among
\* its own parents as well
C23_Witness ==
  /\ solver.phase = "preferring"
  /\ TableSettled
  /\ TableSolved
  /\ IdPinned \in DOMAIN user_requested
  /\ \E i \in 1..Len(solver.information[IdDep]) :
       solver.information[IdDep][i].parent = Candidate(IdDep)
  /\ IdDep \in DOMAIN known_depths
  /\ known_depths[IdDep] = Fin(2)
  /\ call.op = "get_preference"
  /\ call.identifier = IdDep
  /\ call.known_depths_before # known_depths

\* --------------------------------------- claims: what the operations change
\* a depth as the table gives it, an absent entry counting as +infinity
DepthOf(kd, name) == IF name \in DOMAIN kd THEN kd[name] ELSE Inf

\* C24: get_preference(identifier, ...) changes the depth of no identifier but
\* its own (an absent entry counting as +infinity) and leaves user_requested,
\* constraints and the upgrade strategy unchanged; identify, find_matches,
\* is_satisfied_by, get_dependencies, is_backtrack_cause and unpin_requirement
\* change no provider state at all.
C24_Frame ==
  [][ /\ call'.op = "get_preference" =>
           /\ \A name \in DOMAIN known_depths \cup DOMAIN known_depths' :
                name # call'.identifier
                  => DepthOf(known_depths', name) = DepthOf(known_depths, name)
           /\ user_requested' = user_requested
           /\ constraints' = constraints
           /\ upgrade_strategy' = upgrade_strategy
      /\ call'.op \in {"identify", "find_matches", "is_satisfied_by", "get_dependencies",
                       "is_backtrack_cause", "unpin_requirement"} =>
           /\ known_depths' = known_depths
           /\ user_requested' = user_requested
           /\ constraints' = constraints
           /\ upgrade_strategy' = upgrade_strategy
           /\ ignore_dependencies' = ignore_dependencies ]_vars

\* a call whose read of an unknown parent put the parent into the table
C24_Witness ==
  /\ call.op = "get_preference"
  /\ call.identifier = IdDep
  /\ IdPinned \in DOMAIN known_depths \ DOMAIN call.known_depths_before
  /\ known_depths[IdPinned] = Inf
  /\ known_depths[IdDep] = Inf

\* ---------------------------------- claims: ordering structure, its two sets
\* C25: after any sequence of add_relation calls the registered nodes are the
\* keys of the successor mapping and every successor of every node is a
\* registered node; topological_sort, find_position and element_exists leave
\* the node set and the successor mapping unchanged.
C25_NodesAndGraph ==
  /\ [](/\ Range(nodes) = DOMAIN graph
        /\ \A n \in DOMAIN graph : Range(graph[n]) \subseteq Range(nodes))
  /\ [][ result'.op \in {"topological_sort", "find_position", "element_exists"}
          => (nodes' = nodes /\ graph' = graph) ]_vars

\* a query answered on a graph whose last node came in only as a successor
C25_Witness ==
  /\ result.op = "find_position"
  /\ Range(nodes) = Node
  /\ \E n \in Node : graph[n] = <<>> /\ \E m \in Node : n \in Range(graph[m])
  /\ result.value = 2

====
